---- MODULE Spec2Model ----
(***************************************************************************)
(* Model of examples/mxnet/gcn/gcn_spmv.py: the GCN example script.        *)
(*                                                                         *)
(* The script is one sequential process.  Its state is the loaded data     *)
(* set, the DGLGraph with its node data, the layers of the model with      *)
(* their parameters, the locals of main and of GCNLayer.forward, and the   *)
(* lines printed so far.  pc is the position of the process.               *)
(*                                                                         *)
(* float32 tensors are modelled as fixed-point numbers with the IEEE       *)
(* special values kept: a number is a record [k, v] with k one of "fin"    *)
(* (v hundredths), "inf" (v the sign) and "nan".  The loss of one node is  *)
(* kept in closed form ("lse": the logits minus the label's logit), since  *)
(* no integer computes a logarithm.                                        *)
(***************************************************************************)
EXTENDS Integers, Sequences, FiniteSets, TLC

\* ------------------------------------------------------------------ bounds
NumNodes == 2
MaxEpochs == 4
MaxLayers == 2
MaxHidden == 2
NumParamStates == 2

\* pred*100 in the evaluation (the sharpening of the softmax)
Temp == 100
\* first epoch that is timed and logged
WarmupEpochs == 3

\* The resolution of the fixed-point numbers: 1.0 is Scale units.  It is
\* tied to Temp so that pred*100 is a whole number of nats.
Scale == Temp

Nodes == 0 .. (NumNodes - 1)

\* ------------------------------------------------------------- arithmetic
Fin(n) == [k |-> "fin", v |-> n]
PInf == [k |-> "inf", v |-> 1]
NInf == [k |-> "inf", v |-> -1]
NaN == [k |-> "nan", v |-> 0]

IsFinite(a) == a.k = "fin"
Sign(a) == IF a.v > 0 THEN 1 ELSE IF a.v < 0 THEN -1 ELSE 0

\* a + b in float arithmetic: inf + (-inf) and anything with nan are nan
FAdd(a, b) ==
    IF a.k = "nan" \/ b.k = "nan" THEN NaN
    ELSE IF a.k = "inf" /\ b.k = "inf" THEN (IF a.v = b.v THEN a ELSE NaN)
    ELSE IF a.k = "inf" THEN a
    ELSE IF b.k = "inf" THEN b
    ELSE Fin(a.v + b.v)

\* a * b in float arithmetic: 0 * inf and anything with nan are nan
FMul(a, b) ==
    IF a.k = "nan" \/ b.k = "nan" THEN NaN
    ELSE IF a.k = "inf" \/ b.k = "inf"
         THEN (IF Sign(a) * Sign(b) = 0 THEN NaN
               ELSE [k |-> "inf", v |-> Sign(a) * Sign(b)])
    ELSE Fin((a.v * b.v) \div Scale)

\* Scale / sqrt(d) rounded down, for d >= 1
InvSqrt(d) ==
    CHOOSE r \in 0 .. Scale :
        r * r * d <= Scale * Scale /\ (r + 1) * (r + 1) * d > Scale * Scale

\* mx.nd.power(x, -0.5) on a non-negative whole number: 0 gives +inf
PowMinusHalf(d) == IF d = 0 THEN PInf ELSE Fin(InvSqrt(d))

FNeg(a) == IF a.k = "fin" \/ a.k = "inf" THEN [k |-> a.k, v |-> -a.v] ELSE a

\* ---------------------------------------------------------------- tensors
\* A matrix is a function from the nodes to rows; a row is a sequence.
RECURSIVE DotFrom(_, _, _, _)
DotFrom(row, W, j, i) ==
    IF i > Len(row) THEN Fin(0)
    ELSE FAdd(FMul(row[i], W[i][j]), DotFrom(row, W, j, i + 1))

\* gluon.nn.Dense: x . W + b, row by row
Dense(x, P) ==
    [v \in Nodes |-> [j \in 1 .. Len(P.b) |-> FAdd(DotFrom(x[v], P.W, j, 1), P.b[j])]]

\* mx.nd.Dropout while recording: an element is kept and scaled by 1/(1-p),
\* or multiplied by zero; keep[v][i] is the draw for the element
DropScale(p) == Fin((Scale * Scale) \div (Scale - p))
Dropout(x, keep, p) ==
    [v \in Nodes |-> [i \in 1 .. Len(x[v]) |->
        FMul(x[v][i], IF keep[v][i] = 1 THEN DropScale(p) ELSE Fin(0))]]

\* h * g.ndata['norm']: an (N, w) tensor times an (N, 1) tensor, broadcast
MulNorm(x, norm) ==
    [v \in Nodes |-> [i \in 1 .. Len(x[v]) |-> FMul(x[v][i], norm[v][1])]]

\* mx.nd.relu: max(a, 0), a nan staying a nan (no layer output depends on
\* this: a nan that reaches relu comes from a coefficient inf, which makes
\* the output of the last layer nan whatever relu returns)
Relu1(a) ==
    IF a.k = "nan" THEN NaN
    ELSE IF a.v > 0 THEN a ELSE Fin(0)
Relu(x) == [v \in Nodes |-> [i \in 1 .. Len(x[v]) |-> Relu1(x[v][i])]]

\* ------------------------------------------------------------------ graph
\* DGLGraph(data.graph): the nodes 0 .. n-1 and the directed edges <<u, v>>
\* (u the source, v the destination), with no node data yet
DGLGraph(edges) == [edges |-> edges, ndata |-> [f \in {} |-> 0]]

\* g.in_degrees(): per node, the number of edges that end in it
InDegrees(gr) == [v \in Nodes |-> Cardinality({e \in gr.edges : e[2] = v})]

\* g.ndata[f] = x
SetNData(gr, f, x) ==
    [gr EXCEPT !.ndata = [k \in (DOMAIN gr.ndata) \cup {f} |->
                             IF k = f THEN x ELSE gr.ndata[k]]]

\* g.ndata.pop(f): the field is removed from the node data
PopNData(gr, f) ==
    [gr EXCEPT !.ndata = [k \in (DOMAIN gr.ndata) \ {f} |-> gr.ndata[k]]]

\* fn.sum over the messages fn.copy_src sends along every edge u -> v:
\* the sum of x[u] over the sources u of the edges into v, zero without any
RECURSIVE SumInto(_, _, _, _, _)
SumInto(edges, x, v, i, u) ==
    IF u >= NumNodes THEN Fin(0)
    ELSE IF <<u, v>> \in edges
         THEN FAdd(x[u][i], SumInto(edges, x, v, i, u + 1))
         ELSE SumInto(edges, x, v, i, u + 1)

\* g.update_all(fn.copy_src(src='h', out='m'), fn.sum(msg='m', out='h'))
UpdateAll(gr) ==
    SetNData(gr, "h",
        [v \in Nodes |-> [i \in 1 .. Len(gr.ndata["h"][v]) |->
            SumInto(gr.edges, gr.ndata["h"], v, i, 0)]])

\* the loops of range(1, n): node 0 gets none
SelfLoopEdges_SkipFirst == {<<i, i>> : i \in Nodes \ {0}}

\* data.graph.add_edges_from([(i,i) for i in range(len(data.graph))])
SelfLoopEdges == {<<i, i>> : i \in Nodes}
AddEdgesFrom(edges, new) == edges \cup new

\* degs = g.in_degrees(); norm = power(degs, -0.5); expand_dims(norm, 1)
Norm(gr) == [v \in Nodes |-> <<PowMinusHalf(InDegrees(gr)[v])>>]

\* ------------------------------------------------------------------ model
\* GCNLayer.__init__: the fields of a layer.  in_feats is the declared input
\* width; the Dense block is built from out_feats alone and takes its input
\* width from the first tensor it is given.
GCNLayer(in_feats, out_feats, activation, p) ==
    [in_feats |-> in_feats, out_feats |-> out_feats,
     activation |-> activation, dropout |-> p]

\* range(n_layers): one hidden layer too many
NumHiddenLayers_NoMinusOne(n) == n

\* range(n_layers - 1): the number of hidden layers GCN.__init__ adds
NumHiddenLayers(n) == IF n - 1 > 0 THEN n - 1 ELSE 0

\* One parameter state of a Dense block of the given shape: the weights and
\* biases are -1.0, 0.0 or 1.0, laid out by the index s of the state.
DenseParams(s, l, nin, nout) ==
    [W |-> [i \in 1 .. nin |-> [j \in 1 .. nout |->
                Fin(Scale * (((i + j + l + s) % 3) - 1))]],
     b |-> [j \in 1 .. nout |-> Fin(Scale * ((j + s) % 2))]]

\* The parameters of all layers in state s; a layer's input width is the
\* width of the tensor that reaches it.
ModelParams(s, ls, in_width) ==
    [l \in 1 .. Len(ls) |->
        DenseParams(s, l, IF l = 1 THEN in_width ELSE ls[l - 1].out_feats,
                    ls[l].out_feats)]

\* ------------------------------------------------------------------- loss
\* -pick(log_softmax(x), label) of one row: nan when the row holds a nan or
\* +inf or nothing finite, +inf when the label's logit is -inf, and else
\* log(sum_j exp(x[j] - x[label])), kept as the differences
CE(x, label) ==
    IF \E j \in 1 .. Len(x) : x[j].k = "nan" \/ x[j] = PInf THEN NaN
    ELSE IF \A j \in 1 .. Len(x) : x[j] = NInf THEN NaN
    ELSE IF x[label + 1] = NInf THEN PInf
    ELSE [k |-> "lse", v |-> [j \in 1 .. Len(x) |-> FAdd(x[j], FNeg(x[label + 1]))]]

\* _apply_weighting: loss * sample_weight, the weight being 0.0 or 1.0
ApplyWeighting(l, w) ==
    IF l.k = "nan" THEN NaN
    ELSE IF l.k = "inf" THEN (IF w = 0 THEN NaN ELSE l)
    ELSE IF w = 0 THEN Fin(0) ELSE l

\* gluon.loss.SoftmaxCELoss()(pred, labels, mask): one loss per node
SoftmaxCELoss(pr, lab, msk) ==
    [v \in Nodes |-> ApplyWeighting(CE(pr[v], lab[v]), msk[v])]

\* --------------------------------------------------------------- accuracy
\* exp(-d) for a whole number d >= 0, in fixed point
RECURSIVE ExpNeg(_)
ExpNeg(d) ==
    IF d = 0 THEN Scale
    ELSE IF d > 12 THEN 0
    ELSE (ExpNeg(d - 1) * 36788) \div 100000

RECURSIVE SumSeq(_, _)
SumSeq(x, j) == IF j > Len(x) THEN 0 ELSE x[j] + SumSeq(x, j + 1)

\* (x * 100).softmax().pick(label) of one row: exp(x[label] - max) over
\* the sum of exp(x[j] - max), nan when the row holds a nan or +inf or
\* nothing finite
SoftmaxPick(x, label) ==
    IF \E j \in 1 .. Len(x) : x[j].k = "nan" \/ x[j] = PInf THEN NaN
    ELSE IF \A j \in 1 .. Len(x) : x[j] = NInf THEN NaN
    ELSE LET fs == {j \in 1 .. Len(x) : x[j].k = "fin"}
             m == CHOOSE a \in {x[j].v : j \in fs} : \A j \in fs : x[j].v <= a
             e == [j \in 1 .. Len(x) |->
                     IF x[j].k = "fin" THEN ExpNeg(((m - x[j].v) * Temp) \div Scale)
                     ELSE 0]
         IN Fin((e[label + 1] * Scale) \div SumSeq(e, 1))

RECURSIVE MeanFrom(_, _)
MeanFrom(x, v) ==
    IF v >= NumNodes THEN Fin(0) ELSE FAdd(x[v], MeanFrom(x, v + 1))

\* (pred*100).softmax().pick(labels).mean(): the mean over every node
Accuracy(pr, lab) ==
    LET s == MeanFrom([v \in Nodes |-> SoftmaxPick(pr[v], lab[v])], 0)
    IN IF s.k = "fin" THEN Fin(s.v \div NumNodes) ELSE s

\* ------------------------------------------------------------------ state
VARIABLES
    pc,          \* the position of the process
    self_loop, n_epochs, n_layers, n_hidden, dropout,   \* args
    dataGraph,   \* data.graph: its set of edges
    features, labels, mask, n_classes,                  \* the data set
    n_edges,     \* main's n_edges
    g,           \* the DGLGraph: [edges, ndata]
    layers,      \* model.layers: the sequence of GCNLayer
    params,      \* the parameters of the Dense blocks, one per layer
    epoch,       \* the loop variable of the training loop
    pred, loss, dur, accuracy,                          \* main's locals
    out,         \* the lines printed
    recording,   \* inside mx.autograd.record()
    li,          \* GCN.forward: the index of the layer being applied
    h,           \* GCNLayer.forward: its local h
    hin, keep,   \* the input of the layer call and the dropout draw
    calls,       \* how often forward, loss, backward and step have run
    loaded,      \* the edges of data.graph as load_data returned it
    g0           \* the graph as it was before the first epoch

vars == <<pc, self_loop, n_epochs, n_layers, n_hidden, dropout, dataGraph,
          features, labels, mask, n_classes, n_edges, g, layers, params,
          epoch, pred, loss, dur, accuracy, out, recording, li, h, hin, keep,
          calls, loaded, g0>>

args == <<self_loop, n_epochs, n_layers, n_hidden, dropout>>
data == <<features, labels, mask, n_classes>>
fwd == <<li, h, hin, keep>>
ghost == <<loaded, g0>>

None == [k |-> "none", v |-> 0]
NoTensor == [v \in Nodes |-> <<>>]
AllKept(x) == [v \in Nodes |-> [i \in 1 .. Len(x[v]) |-> 1]]
Line(kind, e, val) == [kind |-> kind, epoch |-> e, val |-> val]

\* The state as load_data returns: everything main has not yet set is empty.
InitWith(sl, ne, nl, nh, p, edges, feats, labs, msk) ==
    /\ pc = "self_loop"
    /\ self_loop = sl /\ n_epochs = ne /\ n_layers = nl /\ n_hidden = nh
    /\ dropout = p
    /\ dataGraph = edges
    /\ features = feats /\ labels = labs /\ mask = msk /\ n_classes = 2
    /\ n_edges = 0
    /\ g = DGLGraph({})
    /\ layers = <<>> /\ params = <<>>
    /\ epoch = 0
    /\ pred = NoTensor /\ loss = NoTensor /\ dur = 0 /\ accuracy = None
    /\ out = <<>>
    /\ recording = FALSE
    /\ li = 0 /\ h = NoTensor /\ hin = NoTensor /\ keep = NoTensor
    /\ calls = [forward |-> 0, loss |-> 0, backward |-> 0, step |-> 0]
    /\ loaded = edges
    /\ g0 = DGLGraph({})

\* ----------------------------------------------------------- main: set-up
\* lines 79-80
AddSelfLoops ==
    /\ pc = "self_loop"
    /\ dataGraph' = IF self_loop THEN AddEdgesFrom(dataGraph, SelfLoopEdges)
                    ELSE dataGraph
    /\ pc' = "tensors"
    /\ UNCHANGED <<args, data, n_edges, g, layers, params, epoch, pred, loss,
                   dur, accuracy, out, recording, fwd, calls, ghost>>

\* lines 82-100: the tensors, n_edges and the first print
LoadTensors ==
    /\ pc = "tensors"
    /\ n_edges' = Cardinality(dataGraph)
    /\ out' = Append(out, Line("edges", 0, Fin(Cardinality(dataGraph))))
    /\ pc' = "graph"
    /\ UNCHANGED <<args, data, dataGraph, g, layers, params, epoch, pred, loss,
                   dur, accuracy, recording, fwd, calls, ghost>>

\* line 103
BuildGraph ==
    /\ pc = "graph"
    /\ g' = DGLGraph(dataGraph)
    /\ pc' = "norm"
    /\ UNCHANGED <<args, data, dataGraph, n_edges, layers, params, epoch, pred,
                   loss, dur, accuracy, out, recording, fwd, calls, ghost>>

\* lines 105-109
ComputeNorm ==
    /\ pc = "norm"
    /\ g' = SetNData(g, "norm", Norm(g))
    /\ pc' = "gcn_input"
    /\ UNCHANGED <<args, data, dataGraph, n_edges, layers, params, epoch, pred,
                   loss, dur, accuracy, out, recording, fwd, calls, ghost>>

\* GCN.__init__, line 61: the input layer
AddInputLayer ==
    /\ pc = "gcn_input"
    /\ layers' = <<GCNLayer(Len(features[0]), n_hidden, "relu", dropout)>>
    /\ pc' = "gcn_hidden"
    /\ UNCHANGED <<args, data, dataGraph, n_edges, g, params, epoch, pred, loss,
                   dur, accuracy, out, recording, fwd, calls, ghost>>

\* GCN.__init__, lines 63-64: one turn of the loop over the hidden layers
AddHiddenLayer ==
    /\ pc = "gcn_hidden"
    /\ Len(layers) - 1 < NumHiddenLayers(n_layers)
    /\ layers' = Append(layers, GCNLayer(n_hidden, n_hidden, "relu", dropout))
    /\ UNCHANGED <<pc, args, data, dataGraph, n_edges, g, params, epoch, pred,
                   loss, dur, accuracy, out, recording, fwd, calls, ghost>>

\* GCN.__init__, line 66: the loop is over, the output layer
AddOutputLayer ==
    /\ pc = "gcn_hidden"
    /\ ~(Len(layers) - 1 < NumHiddenLayers(n_layers))
    /\ layers' = Append(layers, GCNLayer(n_hidden, n_classes, "none", dropout))
    /\ pc' = "initialize"
    /\ UNCHANGED <<args, data, dataGraph, n_edges, g, params, epoch, pred, loss,
                   dur, accuracy, out, recording, fwd, calls, ghost>>

\* lines 119-125: the parameters get their first values, the trainer is made
\* and the parameters are printed
Initialize ==
    /\ pc = "initialize"
    /\ \E s \in 0 .. (NumParamStates - 1) :
          params' = ModelParams(s, layers, Len(features[0]))
    /\ out' = Append(out, Line("params", 0, Fin(Len(layers))))
    /\ g0' = g
    /\ pc' = "epoch"
    /\ UNCHANGED <<args, data, dataGraph, n_edges, g, layers, epoch, pred, loss,
                   dur, accuracy, recording, fwd, calls, loaded>>

\* ---------------------------------------------------- main: training loop
\* range(n_epochs + 1): one epoch too many
LoopContinues_OffByOne(e, n) == e <= n

\* for epoch in range(args.n_epochs)
LoopContinues(e, n) == e < n

\* if epoch > 3: the first timed epoch is not logged
LogsEpoch_Late(e) == e > WarmupEpochs

\* if epoch >= 3
LogsEpoch(e) == e >= WarmupEpochs

\* lines 129-133: one more epoch; the forward pass is recorded
EpochStart ==
    /\ pc = "epoch"
    /\ LoopContinues(epoch, n_epochs)
    /\ recording' = TRUE
    /\ pc' = "forward"
    /\ UNCHANGED <<args, data, dataGraph, n_edges, g, layers, params, epoch,
                   pred, loss, dur, accuracy, out, fwd, calls, ghost>>

\* lines 129, 147: the loop is over; the extra forward pass is not recorded
TrainingDone ==
    /\ pc = "epoch"
    /\ ~LoopContinues(epoch, n_epochs)
    /\ recording' = FALSE
    /\ pc' = "forward"
    /\ UNCHANGED <<args, data, dataGraph, n_edges, g, layers, params, epoch,
                   pred, loss, dur, accuracy, out, fwd, calls, ghost>>

\* GCN.forward, line 70
GCNForwardEnter ==
    /\ pc = "forward"
    /\ h' = features
    /\ li' = 1
    /\ calls' = [calls EXCEPT !.forward = @ + 1]
    /\ pc' = "dropout"
    /\ UNCHANGED <<args, data, dataGraph, n_edges, g, layers, params, epoch,
                   pred, loss, dur, accuracy, out, recording, hin, keep, ghost>>

\* GCNLayer.forward, lines 33-34: dropout draws only while recording
LayerDropout ==
    /\ pc = "dropout"
    /\ hin' = h
    /\ IF layers[li].dropout # 0 /\ recording
       THEN \E kp \in [Nodes -> [1 .. Len(h[0]) -> {0, 1}]] :
               /\ keep' = kp
               /\ h' = Dropout(h, kp, layers[li].dropout)
       ELSE /\ keep' = AllKept(h)
            /\ h' = h
    /\ pc' = "dense"
    /\ UNCHANGED <<args, data, dataGraph, n_edges, g, layers, params, epoch,
                   pred, loss, dur, accuracy, out, recording, li, calls, ghost>>

\* line 35
LayerDense ==
    /\ pc = "dense"
    /\ h' = Dense(h, params[li])
    /\ pc' = "src_norm"
    /\ UNCHANGED <<args, data, dataGraph, n_edges, g, layers, params, epoch,
                   pred, loss, dur, accuracy, out, recording, li, hin, keep,
                   calls, ghost>>

\* the source side is not normalized
SrcNormalize_Skipped(x, gr) == x

\* line 37
SrcNormalize(x, gr) == MulNorm(x, gr.ndata["norm"])

LayerSrcNorm ==
    /\ pc = "src_norm"
    /\ h' = SrcNormalize(h, g)
    /\ pc' = "set_h"
    /\ UNCHANGED <<args, data, dataGraph, n_edges, g, layers, params, epoch,
                   pred, loss, dur, accuracy, out, recording, li, hin, keep,
                   calls, ghost>>

\* line 38
LayerSetH ==
    /\ pc = "set_h"
    /\ g' = SetNData(g, "h", h)
    /\ pc' = "update_all"
    /\ UNCHANGED <<args, data, dataGraph, n_edges, layers, params, epoch, pred,
                   loss, dur, accuracy, out, recording, fwd, calls, ghost>>

\* lines 39-40
LayerUpdateAll ==
    /\ pc = "update_all"
    /\ g' = UpdateAll(g)
    /\ pc' = "pop_h"
    /\ UNCHANGED <<args, data, dataGraph, n_edges, layers, params, epoch, pred,
                   loss, dur, accuracy, out, recording, fwd, calls, ghost>>

\* h = self.g.ndata['h']: the field stays
PopH_Kept(gr) == gr

\* line 41: the graph after h = self.g.ndata.pop('h')
PopH(gr) == PopNData(gr, "h")

LayerPopH ==
    /\ pc = "pop_h"
    /\ h' = g.ndata["h"]
    /\ g' = PopH(g)
    /\ pc' = "dst_norm"
    /\ UNCHANGED <<args, data, dataGraph, n_edges, layers, params, epoch, pred,
                   loss, dur, accuracy, out, recording, li, hin, keep, calls, ghost>>

\* line 43
DstNormalize(x, gr) == MulNorm(x, gr.ndata["norm"])

LayerDstNorm ==
    /\ pc = "dst_norm"
    /\ h' = DstNormalize(h, g)
    /\ pc' = "activation"
    /\ UNCHANGED <<args, data, dataGraph, n_edges, g, layers, params, epoch,
                   pred, loss, dur, accuracy, out, recording, li, hin, keep,
                   calls, ghost>>

\* lines 44-46: the activation, when the layer has one, and the return
Activate(x, activation) == IF activation = "relu" THEN Relu(x) ELSE x

LayerActivation ==
    /\ pc = "activation"
    /\ h' = Activate(h, layers[li].activation)
    /\ pc' = "returned"
    /\ UNCHANGED <<args, data, dataGraph, n_edges, g, layers, params, epoch,
                   pred, loss, dur, accuracy, out, recording, li, hin, keep,
                   calls, ghost>>

\* GCN.forward, lines 71-73: the next layer, or the return to main
\* (line 134 inside the loop, line 147 after it)
GCNForwardNext ==
    /\ pc = "returned"
    /\ IF li < Len(layers)
       THEN /\ li' = li + 1
            /\ pc' = "dropout"
            /\ pred' = pred
       ELSE /\ li' = li
            /\ pred' = h
            /\ pc' = IF recording THEN "loss" ELSE "accuracy"
    /\ UNCHANGED <<args, data, dataGraph, n_edges, g, layers, params, epoch,
                   loss, dur, accuracy, out, recording, h, hin, keep, calls, ghost>>

\* line 135, and the end of the with block
ComputeLoss ==
    /\ pc = "loss"
    /\ loss' = SoftmaxCELoss(pred, labels, mask)
    /\ recording' = FALSE
    /\ calls' = [calls EXCEPT !.loss = @ + 1]
    /\ pc' = "backward"
    /\ UNCHANGED <<args, data, dataGraph, n_edges, g, layers, params, epoch,
                   pred, dur, accuracy, out, fwd, ghost>>

\* line 138: the gradients are written beside the parameters, which stay
Backward ==
    /\ pc = "backward"
    /\ calls' = [calls EXCEPT !.backward = @ + 1]
    /\ pc' = "step"
    /\ UNCHANGED <<args, data, dataGraph, n_edges, g, layers, params, epoch,
                   pred, loss, dur, accuracy, out, recording, fwd, ghost>>

\* line 139: Adam moves every parameter; which way depends on gradients
\* that are not modelled, so the new state is any of the parameter states
\* (all finite: the logits of a graph with a coefficient inf are nan with
\* finite parameters already)
TrainerStep ==
    /\ pc = "step"
    /\ \E s \in 0 .. (NumParamStates - 1) :
          params' = ModelParams(s, layers, Len(features[0]))
    /\ calls' = [calls EXCEPT !.step = @ + 1]
    /\ pc' = "log"
    /\ UNCHANGED <<args, data, dataGraph, n_edges, g, layers, epoch, pred, loss,
                   dur, accuracy, out, recording, fwd, ghost>>

\* lines 141-144: the log line of a timed epoch, carrying loss.asnumpy()[0],
\* and the step of the loop
LogEpoch ==
    /\ pc = "log"
    /\ IF LogsEpoch(epoch)
       THEN /\ dur' = dur + 1
            /\ out' = Append(out, Line("epoch", epoch, loss[0]))
       ELSE UNCHANGED <<dur, out>>
    /\ epoch' = epoch + 1
    /\ pc' = "epoch"
    /\ UNCHANGED <<args, data, dataGraph, n_edges, g, layers, params, pred,
                   loss, accuracy, recording, fwd, calls, ghost>>

\* lines 148-150: the accuracy is computed, printed and returned
Evaluate ==
    /\ pc = "accuracy"
    /\ accuracy' = Accuracy(pred, labels)
    /\ out' = Append(out, Line("final", epoch, Accuracy(pred, labels)))
    /\ pc' = "done"
    /\ UNCHANGED <<args, data, dataGraph, n_edges, g, layers, params, epoch,
                   pred, loss, dur, recording, fwd, calls, ghost>>

Next ==
    \/ AddSelfLoops \/ LoadTensors \/ BuildGraph \/ ComputeNorm
    \/ AddInputLayer \/ AddHiddenLayer \/ AddOutputLayer \/ Initialize
    \/ EpochStart \/ TrainingDone \/ GCNForwardEnter
    \/ LayerDropout \/ LayerDense \/ LayerSrcNorm \/ LayerSetH
    \/ LayerUpdateAll \/ LayerPopH \/ LayerDstNorm \/ LayerActivation
    \/ GCNForwardNext
    \/ ComputeLoss \/ Backward \/ TrainerStep \/ LogEpoch \/ Evaluate

\* ----------------------------------------------------------------- inputs
Graphs == SUBSET (Nodes \X Nodes)
Path == {<<u, u + 1>> : u \in 0 .. (NumNodes - 2)}
Ring == {<<u, (u + 1) % NumNodes>> : u \in Nodes}
Features(w) == [v \in Nodes |-> [i \in 1 .. w |-> Fin(Scale * ((v + i) % 3))]]
Labels == [Nodes -> {0, 1}]
Masks == [Nodes -> {0, 1}]
EvenOdd == [v \in Nodes |-> v % 2]

\* every graph, with and without self-loops, for one short training
InitGraphs ==
    \E edges \in Graphs, sl \in BOOLEAN :
        InitWith(sl, 1, 1, 1, 0, edges, Features(1), EvenOdd, EvenOdd)

\* every label vector and mask on a few graphs
InitLabels ==
    \E edges \in {Path, Ring}, sl \in BOOLEAN, labs \in Labels, msk \in Masks :
        InitWith(sl, 1, 1, 2, 0, edges, Features(2), labs, msk)

\* every epoch count, depth and width on a few graphs, without dropout
InitShapes ==
    \E ne \in 0 .. MaxEpochs, nl \in 1 .. MaxLayers, nh \in 1 .. MaxHidden,
       w \in 1 .. 2, edges \in {Path, Ring} :
        InitWith(TRUE, ne, nl, nh, 0, edges, Features(w), EvenOdd, EvenOdd)

\* dropout at rate 0.5 (50 hundredths), on narrow layers
InitDropout ==
    \E nl \in 1 .. 2, edges \in {Path, Ring}, sl \in BOOLEAN :
        InitWith(sl, 1, nl, 1, Scale \div 2, edges, Features(1), EvenOdd, EvenOdd)

\* every epoch count and depth, with and without a node of in-degree 0
InitLoop ==
    \E ne \in 0 .. MaxEpochs, nl \in 1 .. MaxLayers, edges \in {Path, Ring},
       sl \in BOOLEAN :
        InitWith(sl, ne, nl, 1, 0, edges, Features(1), EvenOdd, EvenOdd)

Init == InitGraphs \/ InitLabels \/ InitShapes \/ InitDropout \/ InitLoop

Spec == Init /\ [][Next]_vars

\* The process runs on until main returns.
FairSpec == InitLoop /\ [][Next]_vars /\ WF_vars(Next)

\* ----------------------------------------------------------------- claims
SetUp == {"self_loop", "tensors", "graph", "norm"}
Building == SetUp \cup {"gcn_input", "gcn_hidden", "initialize"}
NormSet == pc \notin SetUp
NormOf(v) == g.ndata["norm"][v][1]
InDeg(edges, v) == Cardinality({e \in edges : e[2] = v})
Endpoints(edges) == {e[1] : e \in edges} \cup {e[2] : e \in edges}

C1_Order ==
    /\ calls.step <= calls.backward
    /\ calls.backward <= calls.loss
    /\ calls.loss <= calls.forward
    /\ calls.forward <= calls.step + 1
    /\ epoch <= calls.step /\ calls.step <= epoch + 1
    /\ epoch <= n_epochs
    /\ pc = "step" => calls.backward = epoch + 1
    /\ pc = "done" => /\ epoch = n_epochs
                      /\ calls.step = n_epochs
                      /\ calls.backward = n_epochs
                      /\ calls.loss = n_epochs
                      /\ calls.forward = n_epochs + 1
\* C1: whatever n_epochs >= 0 is, the loop ends after exactly n_epochs
\* epochs; in each epoch forward, loss, backward and the optimizer step
\* happen once each and in this order, the step never before the epoch's
\* backward, and no epoch is retried or skipped.
C1_TrainingLoop == [](C1_Order) /\ <>(pc = "done")
C1_Witness == pc = "done" /\ n_epochs = MaxEpochs /\ calls.step = MaxEpochs

\* C4: in a graph without isolated nodes (every node is an endpoint of an
\* edge) every normalization coefficient is finite and non-negative.
C4_NormFinite ==
    (NormSet /\ Endpoints(g.edges) = Nodes) =>
        \A v \in Nodes : IsFinite(NormOf(v)) /\ NormOf(v).v >= 0

\* C10: with the self-loop flag the edge (i, i) of every node i is added
\* before the degrees are read, so every in-degree is at least 1 and every
\* coefficient is finite and strictly positive, whatever was loaded;
\* without the flag the edges stay exactly as loaded.
C10_SelfLoop ==
    /\ (pc # "self_loop" /\ self_loop) =>
            dataGraph = loaded \cup {<<i, i>> : i \in Nodes}
    /\ (pc # "self_loop" /\ ~self_loop) => dataGraph = loaded
    /\ NormSet => g.edges = dataGraph
    /\ (NormSet /\ self_loop) =>
            \A v \in Nodes : /\ InDeg(g.edges, v) >= 1
                             /\ IsFinite(NormOf(v))
                             /\ NormOf(v).v > 0
C10_Witness ==
    /\ NormSet /\ self_loop
    /\ \E v \in Nodes : InDeg(loaded, v) = 0
    /\ \E v \in Nodes : InDeg(g.edges, v) = NumNodes

\* C8: the lines printed for the epochs.
EpochLines == SelectSeq(out, LAMBDA ln : ln.kind = "epoch")
FinalLines == SelectSeq(out, LAMBDA ln : ln.kind = "final")
Logged == IF n_epochs > WarmupEpochs THEN n_epochs - WarmupEpochs ELSE 0

Dropped == IF layers[li].dropout # 0 /\ recording
           THEN Dropout(hin, keep, layers[li].dropout) ELSE hin
Projected == Dense(Dropped, params[li])
Sources(v) == {u \in Nodes : <<u, v>> \in g.edges}
Act(a) == IF layers[li].activation = "relu" THEN Relu1(a) ELSE a
LayerOut(v, j) ==
    LET term(u) == FMul(NormOf(u), Projected[u][j])
        sum[S \in SUBSET Nodes] ==
            IF S = {} THEN Fin(0)
            ELSE LET u == CHOOSE x \in S : TRUE
                 IN FAdd(term(u), sum[S \ {u}])
    IN Act(FMul(NormOf(v), sum[Sources(v)]))

\* C2: for every node v, GCNLayer.forward returns
\* act(norm[v] * SUM over the edges u -> v of norm[u] * dense(dropout(h))[u]),
\* the activation being the identity when the layer has none; the sum that
\* update_all leaves for a node without incoming edge is zero.
C2_LayerForward ==
    /\ pc = "returned" =>
        \A v \in Nodes :
            /\ Len(h[v]) = layers[li].out_feats
            /\ \A j \in 1 .. Len(h[v]) : h[v][j] = LayerOut(v, j)
    /\ pc = "pop_h" =>
        \A v \in Nodes : Sources(v) = {} =>
            \A j \in 1 .. Len(g.ndata["h"][v]) : g.ndata["h"][v][j] = Fin(0)
C2_Witness ==
    /\ pc = "returned" /\ recording /\ layers[li].dropout # 0
    /\ layers[li].activation = "relu"
    /\ \E v \in Nodes : keep[v][1] = 0
    /\ \E v \in Nodes : /\ Cardinality(Sources(v)) = 2
                        /\ IsFinite(h[v][1]) /\ h[v][1].v > 0
                        /\ NormOf(v).v < Scale

\* C3: the shape of the model.
Built == pc \notin Building
Hidden == {i \in 1 .. Len(layers) : 1 < i /\ i < Len(layers)}
C3_Chain ==
    /\ layers[1].in_feats = Len(features[0])
    /\ layers[1].out_feats = n_hidden
    /\ \A i \in Hidden : /\ layers[i].in_feats = n_hidden
                         /\ layers[i].out_feats = n_hidden
    /\ layers[Len(layers)].in_feats = n_hidden
    /\ layers[Len(layers)].out_feats = n_classes
    /\ \A i \in 1 .. (Len(layers) - 1) :
            layers[i].out_feats = layers[i + 1].in_feats
    /\ \A i \in 1 .. Len(layers) :
            (layers[i].activation = "none") <=> (i = Len(layers))
C3_Forward ==
    /\ pc \in {"dropout", "dense"} =>
            \A v \in Nodes : Len(hin[v]) = layers[li].in_feats \/ pc = "dropout"
    /\ pc = "dropout" => \A v \in Nodes : Len(h[v]) = layers[li].in_feats
    /\ pc = "returned" => \A v \in Nodes : Len(h[v]) = layers[li].out_feats
    /\ pc \in {"loss", "accuracy"} =>
            /\ li = Len(layers)
            /\ \A v \in Nodes : Len(pred[v]) = n_classes
C3_InOrder ==
    li' # li => \/ li' = li + 1 /\ li' <= Len(layers)
                \/ li' = 1 /\ pc = "forward"

ArgMax(x) ==
    CHOOSE c \in 0 .. (Len(x) - 1) :
        /\ \A j \in 1 .. Len(x) : x[j].v <= x[c + 1].v
        /\ \A d \in 0 .. (c - 1) : x[d + 1].v < x[c + 1].v
Selected == {v \in Nodes : mask[v] = 1}
Correct == {v \in Selected : ArgMax(pred[v]) = labels[v]}
AllFinite(x) == \A v \in Nodes : \A j \in 1 .. Len(x[v]) : IsFinite(x[v][j])

\* C5: the loss is computed over the training-mask nodes only: a node whose
\* mask entry is 0 contributes nothing to the loss, whatever its label and
\* whatever logits are predicted for it (stated here for a graph without
\* isolated nodes and a mask that selects a node).
C5_MaskedLoss ==
    (pc = "backward" /\ Endpoints(g.edges) = Nodes /\ Selected # {}) =>
        \A v \in Nodes : mask[v] = 0 =>
            /\ loss[v] = Fin(0)
            /\ \A u \in Nodes, lab \in 0 .. (n_classes - 1) :
                  SoftmaxCELoss([pred EXCEPT ![v] = pred[u]],
                                [labels EXCEPT ![v] = lab], mask) = loss

\* C6: the value main returns is the number of mask-selected nodes whose
\* argmax class is their label, divided by the number of mask-selected
\* nodes (stated here for finite logits and a mask that selects a node).
C6_MaskedArgmaxAccuracy ==
    (pc = "done" /\ AllFinite(pred) /\ Selected # {}) =>
        accuracy = Fin((Scale * Cardinality(Correct)) \div Cardinality(Selected))

\* C9: the accuracy main returns lies in [0, 1], whatever the graph, the
\* labels and the parameters are (stated here for a graph without isolated
\* nodes).
C9_AccuracyInUnitInterval ==
    (pc = "done" /\ Endpoints(g.edges) = Nodes) =>
        /\ IsFinite(accuracy)
        /\ 0 <= accuracy.v /\ accuracy.v <= Scale

\* C7: the graph and the features are only read.
InLayerCall == {"update_all", "pop_h"}
C7_GraphKept ==
    /\ (Built /\ pc \notin InLayerCall) => g = g0
    /\ (Built /\ pc \in InLayerCall) =>
            /\ g.edges = g0.edges
            /\ DOMAIN g.ndata = {"norm", "h"}
            /\ g.ndata["norm"] = g0.ndata["norm"]
    /\ Built => (DOMAIN g0.ndata = {"norm"} /\ g0.edges = dataGraph)
C7_Frame ==
    /\ features' = features
    /\ (Built /\ params' # params) => pc = "step"
    /\ Built => dataGraph' = dataGraph

\* C7: during training and evaluation the graph (edges and 'norm') and the
\* features stay what they were before the first epoch; the 'h' field a
\* layer writes is gone when the layer returns; the parameters change in
\* the optimizer step only.
C7_ReadOnly == [](C7_GraphKept) /\ [][C7_Frame]_vars
C7_Witness ==
    /\ pc = "done" /\ calls.step = MaxEpochs /\ n_layers = MaxLayers
    /\ params # ModelParams(0, layers, Len(features[0]))

\* Without a node of in-degree 0 the coefficients are finite and positive
\* and the accuracy is a number of [0, 1].
WellFormed ==
    (NormSet /\ \A v \in Nodes : InDeg(g.edges, v) >= 1) =>
        /\ \A v \in Nodes : IsFinite(NormOf(v)) /\ NormOf(v).v > 0
        /\ pc = "done" => (IsFinite(accuracy) /\ accuracy.v \in 0 .. Scale)
        /\ pc = "backward" => \A v \in Nodes : mask[v] = 0 => loss[v] = Fin(0)

====
